---- MODULE Spec2Model ----
(***************************************************************************)
(* Model of src/main.rs of sign_GPS_coords: main() signs one geolocation   *)
(* report twice, once inside a Nova recursive SNARK over a signing circuit *)
(* and once with the plain secp256k1 reference signer sign_coordinates,    *)
(* and prints both 64-byte signatures.                                     *)
(*                                                                         *)
(* Byte strings are sequences of 0..255, text is a sequence of ASCII       *)
(* codes.  The crates sha2, secp256k1 and zk_engine are not part of the    *)
(* repository: SHA-256 and ECDSA are modelled by fixed deterministic       *)
(* stand-ins of the right widths, the proving engine's four entry points   *)
(* by a nondeterministic choice of their outcome.                          *)
(***************************************************************************)
EXTENDS Integers, Sequences, FiniteSets, TLC

\* ---------------------------------------------------------------- bounds

\* as_secs() of the system clock is drawn from 0..MaxTimestamp
MaxTimestamp == 11
\* the verified outputs' low halves are the packed signature shifted by 0..MaxDrift
MaxDrift == 1
\* the verified outputs' high halves are HighPattern(0..MaxHighPattern)
MaxHighPattern == 1

\* ------------------------------------------------------------- constants

\* [u8; 64] signature_bytes
SIG_LEN == 64
\* [u8; 32] part
PART_LEN == 32
\* i * 16..(i + 1) * 16 and part[0..16]
CHUNK == 16
\* [Scalar::zero(); 4], the arity of the primary circuit
ARITY_PRIMARY == 4
\* [Scalar::zero()], the arity of the secondary circuit
ARITY_SECONDARY == 1
\* faulty variant of NUM_STEPS: verify is asked about two steps
NUM_STEPS_Two == 1 + 1
\* num_steps passed to RecursiveSNARK::verify
NUM_STEPS == 1
\* Message::from_digest_slice and SecretKey::from_slice expect "32 bytes"
EXPECT_LEN == 32

\* "0123456789abcdef" as ASCII codes
HexRun == <<48, 49, 50, 51, 52, 53, 54, 55, 56, 57, 97, 98, 99, 100, 101, 102>>

\* faulty variant of SECRET_KEY: the constant and main's literal differ in one digit
SECRET_KEY_Differs == HexRun \o HexRun \o HexRun \o <<49>> \o SubSeq(HexRun, 2, 16)

\* const SECRET_KEY: &'static str
SECRET_KEY == HexRun \o HexRun \o HexRun \o HexRun

\* let secret_key_hex = b"0123...ef" in main
secret_key_hex == HexRun \o HexRun \o HexRun \o HexRun

\* let latitude = 48.8566, as decimal mantissa and number of fraction digits
latitude == [mant |-> 488566, frac |-> 4]

\* let longitude = 2.3522
longitude == [mant |-> 23522, frac |-> 4]

\* ---------------------------------------------------------------- results

Ok(v) == [ok |-> TRUE, val |-> v]

Err(e) == [ok |-> FALSE, err |-> e]

None == [some |-> FALSE]

Some(v) == [some |-> TRUE, val |-> v]

\* ------------------------------------------------------------------- hex

IsHexChar(c) == (c \in 48..57) \/ (c \in 97..102) \/ (c \in 65..70)

HexVal(c) == IF c \in 48..57 THEN c - 48
             ELSE IF c \in 97..102 THEN c - 87
             ELSE c - 55

\* hex::decode: two digits per byte, high nibble first
HexDecode(s) ==
    IF Len(s) % 2 # 0 THEN Err("OddLength")
    ELSE IF \E k \in 1..Len(s) : ~IsHexChar(s[k]) THEN Err("InvalidHexCharacter")
    ELSE Ok([k \in 1..(Len(s) \div 2) |-> 16 * HexVal(s[2 * k - 1]) + HexVal(s[2 * k])])

HexChar(n) == IF n < 10 THEN 48 + n ELSE 87 + n

\* ToHex::encode_hex: lowercase, two digits per byte
HexEncode(b) ==
    [k \in 1..(2 * Len(b)) |->
        IF k % 2 = 1 THEN HexChar(b[(k + 1) \div 2] \div 16)
        ELSE HexChar(b[k \div 2] % 16)]

\* ------------------------------------------------------------------ JSON

RECURSIVE Digits(_)
\* decimal digits of a natural number as ASCII codes
Digits(n) == IF n < 10 THEN <<48 + n>> ELSE Digits(n \div 10) \o <<48 + (n % 10)>>

RECURSIVE Pow10(_)
Pow10(k) == IF k = 0 THEN 1 ELSE 10 * Pow10(k - 1)

RECURSIVE ZeroPad(_, _)
ZeroPad(s, w) == IF Len(s) >= w THEN s ELSE ZeroPad(<<48>> \o s, w)

\* serde_json's f64 output: integer part, '.', fraction digits
FormatF64(x) ==
    Digits(x.mant \div Pow10(x.frac)) \o <<46>>
        \o ZeroPad(Digits(x.mant % Pow10(x.frac)), x.frac)

\* {"latitude":
KeyLatitude == <<123, 34, 108, 97, 116, 105, 116, 117, 100, 101, 34, 58>>

\* ,"longitude":
KeyLongitude == <<44, 34, 108, 111, 110, 103, 105, 116, 117, 100, 101, 34, 58>>

\* ,"timestamp":
KeyTimestamp == <<44, 34, 116, 105, 109, 101, 115, 116, 97, 109, 112, 34, 58>>

\* serde_json::to_string(&position) for #[derive(Serialize)] struct Position
ToJson(position) ==
    KeyLatitude \o FormatF64(position.latitude)
        \o KeyLongitude \o FormatF64(position.longitude)
        \o KeyTimestamp \o Digits(position.timestamp) \o <<125>>

\* ---------------------------------------------------------------- crypto

\* output width of sha2::Sha256
SHA256_LEN == 32
\* width of secp256k1's compressed public key (PublicKey::serialize)
PUBKEY_LEN == 33

RECURSIVE WeightedSum(_, _, _)
\* sum of m[j] * (j + i) for j in 1..n
WeightedSum(m, n, i) == IF n = 0 THEN 0 ELSE m[n] * (n + i) + WeightedSum(m, n - 1, i)

\* stand-in for a hash of the given output width: every output byte depends on
\* every input byte and on the input's length
Sha(width, bytes) ==
    [i \in 1..width |-> (WeightedSum(bytes, Len(bytes), i) + 31 * i + Len(bytes)) % 256]

\* faulty variant of hash_message: a 20-byte digest (a different hasher type)
hash_message_Short(message) == Sha(20, message)

\* fn hash_message(message: &str) -> Box<[u8]>
hash_message(message) == Sha(SHA256_LEN, message)

\* fn hash_position(position: &Position) -> Vec<u8>
hash_position(position) == hash_message(ToJson(position))

\* order of the secp256k1 group, big-endian
CurveOrder ==
    <<255, 255, 255, 255, 255, 255, 255, 255, 255, 255, 255, 255, 255, 255, 255, 254,
      186, 174, 220, 230, 175, 72, 160, 59, 191, 210, 94, 140, 208, 54, 65, 65>>

RECURSIVE BytesLess(_, _, _)
\* big-endian a < b for byte strings of equal length, compared from index k
BytesLess(a, b, k) ==
    IF k > Len(a) THEN FALSE
    ELSE IF a[k] # b[k] THEN a[k] < b[k]
    ELSE BytesLess(a, b, k + 1)

\* SecretKey::from_slice: 32 bytes, not zero, below the group order
SecretKeyFromSlice(bytes) ==
    IF Len(bytes) # EXPECT_LEN THEN Err("InvalidSecretKey")
    ELSE IF \A k \in 1..Len(bytes) : bytes[k] = 0 THEN Err("InvalidSecretKey")
    ELSE IF ~BytesLess(bytes, CurveOrder, 1) THEN Err("InvalidSecretKey")
    ELSE Ok(bytes)

\* stand-in for PublicKey::from_secret_key(..).serialize(): 33 bytes, parity prefix
PublicKeyOf(sk) ==
    <<2 + (sk[EXPECT_LEN] % 2)>> \o [k \in 1..(PUBKEY_LEN - 1) |-> (5 * sk[k] + 3 * k) % 256]

\* Message::from_digest_slice: exactly 32 bytes
MessageFromDigestSlice(hash) ==
    IF Len(hash) # EXPECT_LEN THEN Err("InvalidMessage") ELSE Ok(hash)

\* stand-in for sign_ecdsa(..).serialize_compact(): 64 bytes, a function of the
\* digest and the key alone (RFC 6979 nonce, no randomness argument)
EcdsaCompact(msg, sk) ==
    [k \in 1..SIG_LEN |->
        (7 * msg[((k - 1) % EXPECT_LEN) + 1] + 13 * sk[((3 * k) % EXPECT_LEN) + 1] + k) % 256]

\* fn create_key_pair_from_bytes(secret_bytes: &[u8]) -> (SecretKey, PublicKey)
create_key_pair_from_bytes(secret_bytes) ==
    LET sk == SecretKeyFromSlice(secret_bytes)
    IN  IF ~sk.ok THEN Err("32 bytes: InvalidSecretKey")
        ELSE Ok([secret_key |-> sk.val, public_key |-> PublicKeyOf(sk.val)])

\* fn sign_hash_slice(secret_key: &SecretKey, hash: &[u8]) -> ecdsa::Signature
sign_hash_slice(secret_key, hash) ==
    LET message == MessageFromDigestSlice(hash)
    IN  IF ~message.ok THEN Err("32 bytes: InvalidMessage")
        ELSE Ok(EcdsaCompact(message.val, secret_key))

\* fn sign_coordinates(latitude: f64, longitude: f64, timestamp: u64) -> SignedPosition
\* Ok(SignedPosition), or Err(the message of the expect that panics); the
\* fields digest and secret_key expose the locals hash and secret_key that
\* sign_hash_slice was called with
sign_coordinates(lat, lon, ts) ==
    LET secret_key_bytes == HexDecode(SECRET_KEY)
        position == [latitude |-> lat, longitude |-> lon, timestamp |-> ts]
        hash == hash_message(ToJson(position))
    IN  IF ~secret_key_bytes.ok THEN Err("Invalid hex")
        ELSE LET pair == create_key_pair_from_bytes(secret_key_bytes.val)
             IN  IF ~pair.ok THEN pair
                 ELSE LET sig == sign_hash_slice(pair.val.secret_key, hash)
                      IN  IF ~sig.ok THEN sig
                          ELSE Ok([position |-> position,
                                   signature |-> HexEncode(sig.val),
                                   public_key |-> HexEncode(pair.val.public_key),
                                   digest |-> hash,
                                   secret_key |-> pair.val.secret_key])

\* ------------------------------------------------------- proving engine

\* <E1 as Engine>::Scalar::zero() as its 32-byte little-endian encoding
ScalarZero == [k \in 1..PART_LEN |-> 0]

\* &[<E1 as Engine>::Scalar::zero(); 4] passed to RecursiveSNARK::new
Z0PrimaryNew == [k \in 1..ARITY_PRIMARY |-> ScalarZero]

\* &[<E2 as Engine>::Scalar::zero()] passed to RecursiveSNARK::new
Z0SecondaryNew == [k \in 1..ARITY_SECONDARY |-> ScalarZero]

\* &[<E1 as Engine>::Scalar::ZERO; 4] passed to RecursiveSNARK::verify
Z0PrimaryVerify == [k \in 1..ARITY_PRIMARY |-> ScalarZero]

\* &[<E2 as Engine>::Scalar::ZERO] passed to RecursiveSNARK::verify
Z0SecondaryVerify == [k \in 1..ARITY_SECONDARY |-> ScalarZero]

\* C2::default()
circuit_secondary == "TrivialCircuit"

\* the value PublicParams::setup returns for a pair of circuits: it binds
\* their shapes (arities), not their witnesses
PublicParamsOf(c1, c2) ==
    [arity_primary |-> ARITY_PRIMARY, arity_secondary |-> ARITY_SECONDARY, secondary |-> c2]

\* the high 16 bytes of an output element's encoding; the top byte stays
\* below 64 as in a canonical Pallas scalar
HighPattern(h) == [j \in 1..(PART_LEN - CHUNK) |-> (h * j) % 64]

\* a 64-byte string with every byte moved by d
Shift(sig, d) == [k \in 1..Len(sig) |-> (sig[k] + d) % 256]

\* four field elements holding a 64-byte string, 16 bytes in the low half of each
Pack(sig, high) ==
    [e \in 1..(Len(sig) \div CHUNK) |-> SubSeq(sig, CHUNK * (e - 1) + 1, CHUNK * e) \o high]

\* the outputs verify may return for a circuit: the packed compact signature
\* of the circuit's own digest and key (d = 0), or other elements (d > 0),
\* with any high half
VerifiedOutputs(circuit) ==
    { Pack(Shift(EcdsaCompact(circuit.hash, circuit.secret_key), d), HighPattern(h)) :
        d \in 0..MaxDrift, h \in 0..MaxHighPattern }

\* the outcomes of one fallible call of the engine
EngineOutcomes == {Ok("done"), Err("NovaError")}

\* ------------------------------------------------------------ extraction

\* faulty variant of PartSlice: the high half, part[16..32]
PartSlice_High(part) == SubSeq(part, CHUNK + 1, 2 * CHUNK)

\* &part[0..16]
PartSlice(part) == SubSeq(part, 1, CHUNK)

\* faulty variant of CopyFromSlice: the chunks land in reverse order
CopyFromSlice_Reversed(buf, idx, src) ==
    [k \in 1..Len(buf) |->
        IF k > (3 - idx) * CHUNK /\ k <= (4 - idx) * CHUNK
        THEN src[k - (3 - idx) * CHUNK] ELSE buf[k]]

\* signature_bytes[i * 16..(i + 1) * 16].copy_from_slice(src)
CopyFromSlice(buf, idx, src) ==
    [k \in 1..Len(buf) |->
        IF k > idx * CHUNK /\ k <= (idx + 1) * CHUNK THEN src[k - idx * CHUNK] ELSE buf[k]]

\* ----------------------------------------------------------------- state

VARIABLES
    pc,               \* the statement of main() to run next
    secret_key,       \* main's decoded key bytes
    timestamp,        \* main's timestamp
    position,         \* main's Position
    hash,             \* main's hash
    circuit_primary,  \* SigningCircuit::new(hash, secret_key)
    pp,               \* PublicParams
    recursive_snark,  \* RecursiveSNARK: its parameters, circuit, inputs and step counter
    res,              \* the Result of verify
    signature,        \* the primary outputs of a successful verify
    idx,              \* i of the extraction loop
    signature_bytes,  \* [u8; 64]
    writes,           \* how often each byte of signature_bytes was copied into
    signed_position,  \* the result of sign_coordinates
    stdout,           \* the lines printed so far
    panic,            \* the message of the panic that ended the run
    trace,            \* the stages run so far, in order
    failures,         \* the stages that returned an error
    engine_calls      \* the engine calls made so far, with their arguments

vars == <<pc, secret_key, timestamp, position, hash, circuit_primary, pp,
          recursive_snark, res, signature, idx, signature_bytes, writes,
          signed_position, stdout, panic, trace, failures, engine_calls>>

\* the variables of the proof pipeline
proofVars == <<circuit_primary, pp, recursive_snark, res, engine_calls>>

\* the variables of the reconciliation
extractVars == <<signature, idx, signature_bytes, writes>>

\* the variables of main's inputs
inputVars == <<secret_key, timestamp, position, hash>>

Init ==
    /\ pc = "decode_key"
    /\ secret_key = None
    /\ timestamp = None
    /\ position = None
    /\ hash = None
    /\ circuit_primary = None
    /\ pp = None
    /\ recursive_snark = None
    /\ res = None
    /\ signature = <<>>
    /\ idx = 0
    /\ signature_bytes = <<>>
    /\ writes = <<>>
    /\ signed_position = None
    /\ stdout = <<>>
    /\ panic = None
    /\ trace = <<>>
    /\ failures = {}
    /\ engine_calls = <<>>

\* one engine call and the arguments main passes to it
Call(op, params, primary, z0p, z0s, steps) ==
    [op |-> op, pp |-> params, primary |-> primary, secondary |-> circuit_secondary,
     z0_primary |-> z0p, z0_secondary |-> z0s, num_steps |-> steps]

\* faulty variant of Fail: the error is dropped and the run goes on to the next stage
Fail_Swallowed(stage, msg, next) ==
    /\ pc' = next
    /\ panic' = panic
    /\ failures' = failures \cup {stage}

\* unwrap() / expect() on an Err: the thread panics and the process ends; the
\* statement that would have run next is not reached
Fail(stage, msg, next) ==
    /\ pc' = "panicked"
    /\ panic' = Some(msg)
    /\ failures' = failures \cup {stage}

\* faulty variant of Pass: the step of the proof is left out
Pass_SkipsStep(next) ==
    /\ pc' = IF next = "prove_step" THEN "verify" ELSE next
    /\ UNCHANGED <<panic, failures>>

\* unwrap() / expect() on an Ok: the next statement runs
Pass(next) ==
    /\ pc' = next
    /\ UNCHANGED <<panic, failures>>

\* let secret_key = hex::decode(secret_key_hex).unwrap();
DecodeKey ==
    /\ pc = "decode_key"
    /\ trace' = Append(trace, "decode_key")
    /\ LET r == HexDecode(secret_key_hex)
       IN  IF r.ok
           THEN secret_key' = Some(r.val) /\ Pass("clock")
           ELSE secret_key' = secret_key /\ Fail("decode_key", r.err, "clock")
    /\ UNCHANGED <<timestamp, position, hash, proofVars, extractVars,
                   signed_position, stdout>>

\* SystemTime::now().duration_since(UNIX_EPOCH).unwrap().as_secs()
ReadClock ==
    /\ pc = "clock"
    /\ trace' = Append(trace, "clock")
    /\ \E r \in {Ok(t) : t \in 0..MaxTimestamp} \cup {Err("SystemTimeError")} :
           IF r.ok
           THEN timestamp' = Some(r.val) /\ Pass("digest")
           ELSE timestamp' = timestamp /\ Fail("clock", r.err, "digest")
    /\ UNCHANGED <<secret_key, position, hash, proofVars, extractVars,
                   signed_position, stdout>>

\* let position = Position { .. }; let hash = hash_position(&position);
HashPosition ==
    /\ pc = "digest"
    /\ trace' = Append(trace, "digest")
    /\ LET p == [latitude |-> latitude, longitude |-> longitude,
                 timestamp |-> timestamp.val]
       IN  /\ position' = Some(p)
           /\ hash' = Some(hash_position(p))
    /\ Pass("build")
    /\ UNCHANGED <<secret_key, timestamp, proofVars, extractVars,
                   signed_position, stdout>>

\* let circuit_primary = C1::new(hash, secret_key); let circuit_secondary = C2::default();
BuildCircuits ==
    /\ pc = "build"
    /\ trace' = Append(trace, "build")
    /\ circuit_primary' = Some([hash |-> hash.val, secret_key |-> secret_key.val])
    /\ Pass("setup")
    /\ UNCHANGED <<inputVars, pp, recursive_snark, res, engine_calls, extractVars,
                   signed_position, stdout>>

\* let pp = PublicParams::<E1>::setup(&circuit_primary, &circuit_secondary, ..).unwrap();
Setup ==
    /\ pc = "setup"
    /\ trace' = Append(trace, "setup")
    /\ stdout' = Append(stdout, [line |-> "Producing public parameters...", val |-> <<>>])
    /\ engine_calls' = Append(engine_calls,
            Call("setup", None, circuit_primary.val, <<>>, <<>>, 0))
    /\ \E r \in EngineOutcomes :
           IF r.ok
           THEN /\ pp' = Some(PublicParamsOf(circuit_primary.val, circuit_secondary))
                /\ Pass("new")
           ELSE /\ pp' = pp
                /\ Fail("setup", r.err, "new")
    /\ UNCHANGED <<inputVars, circuit_primary, recursive_snark, res, extractVars,
                   signed_position>>

\* let mut recursive_snark = RecursiveSNARK::<E1>::new(&pp, .., z0_primary, z0_secondary).unwrap();
NewSnark ==
    /\ pc = "new"
    /\ trace' = Append(trace, "new")
    /\ stdout' = Append(stdout, [line |-> "Generating a RecursiveSNARK...", val |-> <<>>])
    /\ engine_calls' = Append(engine_calls,
            Call("new", pp.val, circuit_primary.val, Z0PrimaryNew, Z0SecondaryNew, 0))
    /\ \E r \in EngineOutcomes :
           IF r.ok /\ Len(Z0PrimaryNew) = pp.val.arity_primary
                   /\ Len(Z0SecondaryNew) = pp.val.arity_secondary
           THEN /\ recursive_snark' = Some([pp |-> pp.val,
                                            primary |-> circuit_primary.val,
                                            z0_primary |-> Z0PrimaryNew,
                                            z0_secondary |-> Z0SecondaryNew,
                                            i |-> 0])
                /\ Pass("prove_step")
           ELSE /\ recursive_snark' = recursive_snark
                /\ Fail("new", "NovaError", "prove_step")
    /\ UNCHANGED <<inputVars, circuit_primary, pp, res, extractVars, signed_position>>

\* faulty variant of ProveStep: the step replaces the parameters it was given
ProveStep_RebuildsParams ==
    /\ pc = "prove_step"
    /\ trace' = Append(trace, "prove_step")
    /\ engine_calls' = Append(engine_calls,
            Call("prove_step", pp.val, circuit_primary.val, <<>>, <<>>, 0))
    /\ recursive_snark' =
            Some([recursive_snark.val EXCEPT !.i = recursive_snark.val.i + 1])
    /\ pp' = Some([pp.val EXCEPT !.secondary = "Rebuilt"])
    /\ Pass("verify")
    /\ UNCHANGED <<inputVars, circuit_primary, res, extractVars,
                   signed_position, stdout>>

\* recursive_snark.prove_step(&pp, &circuit_primary, &circuit_secondary).unwrap();
ProveStep ==
    /\ pc = "prove_step"
    /\ trace' = Append(trace, "prove_step")
    /\ engine_calls' = Append(engine_calls,
            Call("prove_step", pp.val, circuit_primary.val, <<>>, <<>>, 0))
    /\ \E r \in EngineOutcomes :
           IF r.ok
           THEN /\ recursive_snark' =
                       Some([recursive_snark.val EXCEPT !.i = recursive_snark.val.i + 1])
                /\ Pass("verify")
           ELSE /\ recursive_snark' = recursive_snark
                /\ Fail("prove_step", r.err, "verify")
    /\ UNCHANGED <<inputVars, circuit_primary, pp, res, extractVars,
                   signed_position, stdout>>

\* what RecursiveSNARK::verify answers: an error when the step count or the
\* initial inputs are not the proof's own, else an error or the outputs
VerifyOutcomes(snark, params, steps, z0p, z0s) ==
    IF steps = 0 \/ steps # snark.i \/ z0p # snark.z0_primary
          \/ z0s # snark.z0_secondary \/ params # snark.pp
    THEN {Err("ProofVerifyError")}
    ELSE {Err("ProofVerifyError")}
            \cup {Ok([zn_primary |-> out, zn_secondary |-> snark.z0_secondary]) :
                    out \in VerifiedOutputs(snark.primary)}

\* let res = recursive_snark.verify(&pp, 1, z0_primary, z0_secondary);
Verify ==
    /\ pc = "verify"
    /\ trace' = Append(trace, "verify")
    /\ stdout' = Append(stdout, [line |-> "Verifying a RecursiveSNARK...", val |-> <<>>])
    /\ engine_calls' = Append(engine_calls,
            Call("verify", pp.val, circuit_primary.val, Z0PrimaryVerify,
                 Z0SecondaryVerify, NUM_STEPS))
    /\ \E r \in VerifyOutcomes(recursive_snark.val, pp.val, NUM_STEPS,
                               Z0PrimaryVerify, Z0SecondaryVerify) :
           /\ res' = Some(r)
           /\ failures' = IF r.ok THEN failures ELSE failures \cup {"verify"}
    /\ pc' = "unwrap_res"
    /\ UNCHANGED <<inputVars, circuit_primary, pp, recursive_snark, extractVars,
                   signed_position, panic>>

\* println!("RecursiveSNARK::verify: {:?}", res.is_ok());
\* let (signature, _) = res.unwrap(); let mut signature_bytes: [u8; 64] = [0; 64];
UnwrapRes ==
    /\ pc = "unwrap_res"
    /\ stdout' = Append(stdout, [line |-> "RecursiveSNARK::verify", val |-> res.val.ok])
    /\ IF res.val.ok
       THEN /\ signature' = res.val.val.zn_primary
            /\ signature_bytes' = [k \in 1..SIG_LEN |-> 0]
            /\ writes' = [k \in 1..SIG_LEN |-> 0]
            /\ idx' = 0
            /\ Pass("extract")
       ELSE /\ UNCHANGED extractVars
            /\ Fail("verify", res.val.err, "extract")
    /\ UNCHANGED <<inputVars, proofVars, signed_position, trace>>

\* one iteration of: for (i, signature_part) in signature.into_iter().enumerate()
\*     let part: [u8; 32] = signature_part.into();
\*     signature_bytes[i * 16..(i + 1) * 16].copy_from_slice(&part[0..16]);
ExtractPart ==
    /\ pc = "extract"
    /\ idx < Len(signature)
    /\ trace' = IF idx = 0 THEN Append(trace, "extract") ELSE trace
    /\ LET part == signature[idx + 1]
       IN  IF (idx + 1) * CHUNK <= Len(signature_bytes)
           THEN /\ signature_bytes' = CopyFromSlice(signature_bytes, idx, PartSlice(part))
                /\ writes' = [k \in 1..SIG_LEN |->
                                IF k > idx * CHUNK /\ k <= (idx + 1) * CHUNK
                                THEN writes[k] + 1 ELSE writes[k]]
                /\ idx' = idx + 1
                /\ Pass("extract")
           ELSE /\ UNCHANGED <<signature_bytes, writes, idx>>
                /\ Fail("extract", "range end index out of range", "extract")
    /\ UNCHANGED <<inputVars, proofVars, signature, signed_position, stdout>>

\* println!("Signature : {:?}", signature_bytes);
PrintSignature ==
    /\ pc = "extract"
    /\ idx = Len(signature)
    /\ trace' = Append(trace, "print_signature")
    /\ stdout' = Append(stdout, [line |-> "Signature", val |-> signature_bytes])
    /\ Pass("sign_coordinates")
    /\ UNCHANGED <<inputVars, proofVars, extractVars, signed_position>>

\* let signed_position = sign_coordinates(latitude, longitude, timestamp);
SignCoordinates ==
    /\ pc = "sign_coordinates"
    /\ trace' = Append(trace, "sign_coordinates")
    /\ LET r == sign_coordinates(latitude, longitude, timestamp.val)
       IN  IF r.ok
           THEN signed_position' = Some(r.val) /\ Pass("print_expected")
           ELSE signed_position' = signed_position
                    /\ Fail("sign_coordinates", r.err, "print_expected")
    /\ UNCHANGED <<inputVars, proofVars, extractVars, stdout>>

\* println!("Expected  : {:?}", hex::decode(signed_position.signature).unwrap());
PrintExpected ==
    /\ pc = "print_expected"
    /\ trace' = Append(trace, "print_expected")
    /\ LET r == HexDecode(signed_position.val.signature)
       IN  IF r.ok
           THEN stdout' = Append(stdout, [line |-> "Expected", val |-> r.val])
                    /\ Pass("done")
           ELSE stdout' = stdout /\ Fail("print_expected", r.err, "done")
    /\ UNCHANGED <<inputVars, proofVars, extractVars, signed_position>>

Next ==
    \/ DecodeKey
    \/ ReadClock
    \/ HashPosition
    \/ BuildCircuits
    \/ Setup
    \/ NewSnark
    \/ ProveStep
    \/ Verify
    \/ UnwrapRes
    \/ ExtractPart
    \/ PrintSignature
    \/ SignCoordinates
    \/ PrintExpected

Spec == Init /\ [][Next]_vars

\* ------------------------------------------------------------ properties

\* the value printed on the line of the given name
Printed(name) ==
    LET k == CHOOSE k \in 1..Len(stdout) : stdout[k].line = name IN stdout[k].val

HasPrinted(name) == \E k \in 1..Len(stdout) : stdout[k].line = name

\* the compact signature of the digest and key the signing circuit was built from
CircuitSignature ==
    EcdsaCompact(circuit_primary.val.hash, circuit_primary.val.secret_key)

\* the hypothesis of C1 on the circuit: output element e carries bytes
\* 16(e-1)+1 .. 16e of the compact signature in its low 16 bytes
CircuitPacksCompactSignature ==
    /\ Len(signature) = ARITY_PRIMARY
    /\ \A e \in 1..ARITY_PRIMARY :
           SubSeq(signature[e], 1, CHUNK)
               = SubSeq(CircuitSignature, CHUNK * (e - 1) + 1, CHUNK * e)

\* C1: once the run has verified the proof and printed both signatures, and the
\* circuit's outputs carry the compact signature of its own digest and key in
\* 16-byte chunks, the extracted 64 bytes equal the reference signature bytes
\* obtained from sign_coordinates for the same report and key.
CrossPathEquivalence ==
    (pc = "done" /\ res.val.ok /\ CircuitPacksCompactSignature)
        => /\ signature_bytes = HexDecode(signed_position.val.signature).val
           /\ Printed("Signature") = Printed("Expected")
           /\ Len(signature_bytes) = SIG_LEN

\* C1 witness: a finished run whose circuit packed the compact signature under
\* non-zero high halves, with both signatures printed
CrossPathWitness ==
    /\ pc = "done"
    /\ res.val.ok
    /\ CircuitPacksCompactSignature
    /\ signature[1][PART_LEN - 1] # 0
    /\ HasPrinted("Signature") /\ HasPrinted("Expected")

\* C2: after idx iterations of the extraction loop, buffer bytes 16e+1..16e+16
\* hold bytes 1..16 of element e+1 for every e < idx, each of them written
\* exactly once and the others not yet written and still zero; after the loop
\* all 64 bytes are written exactly once, the high halves do not show, and for
\* every 64-byte string whose packing the elements are the buffer is that string.
ExtractionPacking ==
    (pc \in {"extract", "sign_coordinates", "print_expected", "done"})
        => /\ Len(signature) = ARITY_PRIMARY
           /\ Len(signature_bytes) = SIG_LEN
           /\ idx \in 0..ARITY_PRIMARY
           /\ \A e \in 0..(idx - 1) : \A j \in 1..CHUNK :
                  signature_bytes[CHUNK * e + j] = signature[e + 1][j]
           /\ \A k \in 1..SIG_LEN :
                  IF k <= CHUNK * idx THEN writes[k] = 1
                  ELSE writes[k] = 0 /\ signature_bytes[k] = 0
           /\ (pc # "extract") => idx = ARITY_PRIMARY
           /\ (idx = ARITY_PRIMARY) =>
                  \A d \in 0..MaxDrift : \A h \in 0..MaxHighPattern :
                      (signature = Pack(Shift(CircuitSignature, d), HighPattern(h)))
                          => signature_bytes = Shift(CircuitSignature, d)

\* C2 witness: the loop has run four times over elements with non-zero high
\* halves that pack a string other than the reference signature
ExtractionWitness ==
    /\ pc = "sign_coordinates"
    /\ idx = ARITY_PRIMARY
    /\ signature = Pack(Shift(CircuitSignature, 1), HighPattern(1))
    /\ signature_bytes = Shift(CircuitSignature, 1)

\* the state of the proof driver
Stage ==
    IF res.some THEN (IF res.val.ok THEN "Verified" ELSE "VerificationFailed")
    ELSE IF recursive_snark.some
         THEN (IF recursive_snark.val.i = 0 THEN "ProofInitialized" ELSE "StepAdvanced")
    ELSE IF pp.some THEN "ParametersReady"
    ELSE "Uninitialized"

\* the driver's transitions
StageEdges ==
    { <<"Uninitialized", "ParametersReady">>,
      <<"ParametersReady", "ProofInitialized">>,
      <<"ProofInitialized", "StepAdvanced">>,
      <<"StepAdvanced", "Verified">>,
      <<"StepAdvanced", "VerificationFailed">> }

\* the positions of a stage in the trace
Positions(stage) == {k \in 1..Len(trace) : trace[k] = stage}

\* the engine operations called so far, in order
EngineOps == [k \in 1..Len(engine_calls) |-> engine_calls[k].op]

\* every occurrence of stage a precedes every occurrence of stage b
Precedes(a, b) == \A i \in Positions(a), j \in Positions(b) : i < j

StageOrderInvariant ==
    /\ \A k \in 1..Len(trace) : Cardinality(Positions(trace[k])) = 1
    /\ EngineOps = SubSeq(<<"setup", "new", "prove_step", "verify">>, 1, Len(engine_calls))
    /\ Positions("build") # {} => (Positions("digest") # {} /\ Precedes("digest", "build"))
    /\ Positions("setup") # {} => (Positions("build") # {} /\ Precedes("build", "setup"))
    /\ \A stage \in {"extract", "print_signature", "sign_coordinates", "print_expected"} :
           Positions(stage) # {} => Stage = "Verified"
    /\ (HasPrinted("Signature") \/ HasPrinted("Expected")) => Stage = "Verified"
    /\ (recursive_snark.some => recursive_snark.val.i <= 1)

\* C3: the driver's state changes only along Uninitialized -> ParametersReady ->
\* ProofInitialized -> StepAdvanced -> Verified or VerificationFailed; setup, new,
\* prove_step and verify are called at most once each and in that order, no
\* stage runs twice, the digest precedes the circuits' construction, and
\* extraction and the printing of either signature happen only in Verified.
StageOrdering ==
    /\ []StageOrderInvariant
    /\ [][Stage' = Stage \/ <<Stage, Stage'>> \in StageEdges]_vars

\* C3 witness: a finished run that went through all stages to Verified
StageOrderingWitness ==
    /\ pc = "done"
    /\ Stage = "Verified"
    /\ EngineOps = <<"setup", "new", "prove_step", "verify">>

\* the lines stdout gained in a step
NewLines == {stdout'[k].line : k \in (Len(stdout) + 1)..Len(stdout')}

AbortInvariant ==
    /\ (failures # {}) =>
           /\ Cardinality(failures) = 1
           /\ trace[Len(trace)] \in failures
           /\ Cardinality(Positions(trace[Len(trace)])) = 1
           /\ pc = "panicked" \/ (pc = "unwrap_res" /\ ~res.val.ok)
    /\ (pc = "panicked") <=> panic.some
    /\ (pc = "panicked") => failures # {}
    /\ (pc = "done") => failures = {}

\* C4: a stage that fails is the last stage of the run: the error is recorded
\* and the run panics (after verify, once its outcome is printed), no stage
\* runs after it, it is not run again, and neither the "Signature" nor the
\* "Expected" line is printed after it; a panicked run takes no further step.
AbortOnError ==
    /\ []AbortInvariant
    /\ [][(failures # {}) =>
              /\ trace' = trace
              /\ failures' = failures
              /\ pc' = "panicked"
              /\ NewLines \cap {"Signature", "Expected"} = {}]_vars
    /\ [][pc # "panicked"]_vars

\* C4 witness: the step of the proof failed after setup and new succeeded
AbortWitness ==
    /\ pc = "panicked"
    /\ failures = {"prove_step"}
    /\ trace = <<"decode_key", "clock", "digest", "build", "setup", "new", "prove_step">>
    /\ ~HasPrinted("Signature")

\* the calls of an engine operation
CallsOf(op) == {k \in 1..Len(engine_calls) : engine_calls[k].op = op}

\* C7: when verify is called, prove_step has been called exactly once and the
\* proof's step counter is 1; verify's step count is that number, and its
\* initial inputs are those new received: 4 zero elements on the primary
\* curve and 1 zero element on the secondary curve.
StepCountAgrees ==
    \A v \in CallsOf("verify") :
        /\ Cardinality({k \in CallsOf("prove_step") : k < v}) = 1
        /\ engine_calls[v].num_steps = Cardinality(CallsOf("prove_step"))
        /\ engine_calls[v].num_steps = recursive_snark.val.i
        /\ \E n \in CallsOf("new") :
               /\ n < v
               /\ engine_calls[n].z0_primary = engine_calls[v].z0_primary
               /\ engine_calls[n].z0_secondary = engine_calls[v].z0_secondary
        /\ engine_calls[v].z0_primary = recursive_snark.val.z0_primary
        /\ engine_calls[v].z0_secondary = recursive_snark.val.z0_secondary
        /\ Len(engine_calls[v].z0_primary) = 4
        /\ Len(engine_calls[v].z0_secondary) = 1
        /\ \A k \in 1..4 : \A j \in 1..PART_LEN : engine_calls[v].z0_primary[k][j] = 0
        /\ \A j \in 1..PART_LEN : engine_calls[v].z0_secondary[1][j] = 0

\* C7 witness: verify was called and accepted the proof
StepCountWitness ==
    /\ CallsOf("verify") # {}
    /\ res.some /\ res.val.ok

ParamsInvariant ==
    /\ Cardinality(CallsOf("setup")) <= 1
    /\ pp.some <=> (Cardinality(CallsOf("setup")) = 1 /\ failures \cap {"setup"} = {})
    /\ \A k \in 1..Len(engine_calls) :
           /\ engine_calls[k].primary = circuit_primary.val
           /\ engine_calls[k].secondary = circuit_secondary
           /\ engine_calls[k].op # "setup" =>
                  /\ pp.some
                  /\ engine_calls[k].pp = pp.val
                  /\ pp.val = PublicParamsOf(engine_calls[1].primary,
                                             engine_calls[1].secondary)
    /\ recursive_snark.some => recursive_snark.val.pp = pp.val

\* C8: setup is called at most once and the parameters it returns never change
\* afterwards; new, prove_step and verify are each handed exactly that value,
\* and all four calls are handed the same circuits, which never change once built.
ParamsFrame ==
    /\ []ParamsInvariant
    /\ [][pp.some => pp' = pp]_vars
    /\ [][circuit_primary.some => circuit_primary' = circuit_primary]_vars

\* C8 witness: all four engine calls were made
ParamsWitness ==
    /\ pp.some
    /\ EngineOps = <<"setup", "new", "prove_step", "verify">>
    /\ res.some /\ res.val.ok

\* C9: whenever both the signing circuit and the reference signature exist, the
\* digest the circuit was built from is the digest sign_coordinates signed and
\* the key bytes the circuit was built from are the key bytes it signed with.
SharedInputs ==
    (circuit_primary.some /\ signed_position.some)
        => /\ circuit_primary.val.hash = signed_position.val.digest
           /\ circuit_primary.val.secret_key = signed_position.val.secret_key
           /\ signed_position.val.position = position.val

\* C9 witness: the reference signer has signed in a run with a non-zero timestamp
SharedInputsWitness ==
    /\ circuit_primary.some
    /\ signed_position.some
    /\ timestamp.val = MaxTimestamp

\* C10: every digest main computes and every digest sign_coordinates signs is
\* 32 bytes long, and no run panics on Message::from_digest_slice's length check.
DigestWidth ==
    /\ hash.some => Len(hash.val) = 32
    /\ circuit_primary.some => Len(circuit_primary.val.hash) = 32
    /\ (pc \in {"print_expected", "done"}) =>
           (signed_position.some /\ Len(signed_position.val.digest) = 32)
    /\ panic.some => panic.val # "32 bytes: InvalidMessage"
    /\ "sign_coordinates" \notin failures

\* C10 witness: the reference signer was handed a digest and signed it
DigestWidthWitness ==
    /\ pc = "done"
    /\ signed_position.some
    /\ MessageFromDigestSlice(signed_position.val.digest).ok

====
